---- MODULE Spec2Model ----
(***************************************************************************)
(* Model of the defensive strategy relay                                   *)
(* (src/orientation/strategy_relay_defensive.py): main() and the five      *)
(* phase functions it drives, the artifact files they leave on disk and    *)
(* the agent they call.  Prompt text is data and is not modelled; every    *)
(* branch, early return, exit and file access of main() is.                *)
(***************************************************************************)
EXTENDS Integers, Sequences, FiniteSets, TLC

(* ------------------------------ bounds ---------------------------------- *)

\* longest attack list of a run
MaxAttacks == 2

(* --------------------------- string helpers ----------------------------- *)
\* Strings are sequences of one-character strings, so that lower(),
\* replace() and slicing act on them character by character.

Upper == <<"A","B","C","D","E","F","G","H","I","J","K","L","M",
           "N","O","P","Q","R","S","T","U","V","W","X","Y","Z">>

Lower == <<"a","b","c","d","e","f","g","h","i","j","k","l","m",
           "n","o","p","q","r","s","t","u","v","w","x","y","z">>

\* str.lower() on one character
LowerCh(c) ==
    IF \E k \in 1..Len(Upper) : Upper[k] = c
    THEN Lower[CHOOSE k \in 1..Len(Upper) : Upper[k] = c]
    ELSE c

\* (variant: the name is not lowercased)
KeepCase(s) == s

\* str.lower()
ToLower(s) == [k \in 1..Len(s) |-> LowerCh(s[k])]

\* str.replace(old, new) for one-character old and new
Replace(s, old, new) == [k \in 1..Len(s) |-> IF s[k] = old THEN new ELSE s[k]]

\* s[:n]
Take(s, n) == IF Len(s) <= n THEN s ELSE SubSeq(s, 1, n)

\* the slice bound of attack_name_slug
SlugLen == 30

\* (variant: everything but letters, digits and underscores is dropped)
SlugStripped(name) ==
    LET s == Take(Replace(Replace(ToLower(name), " ", "_"), "-", "_"), SlugLen)
        keep(c) == c # "!"
    IN  SelectSeq(s, keep)

\* attack["name"].lower().replace(" ", "_").replace("-", "_")[:30]
Slug(name) == Take(Replace(Replace(ToLower(name), " ", "_"), "-", "_"), SlugLen)

(* ------------------------------ inputs ---------------------------------- *)

Id001 == <<"0","0","1">>
Id002 == <<"0","0","2">>

\* {id: "001", name: "A b"}
Attack1 == [id |-> Id001, name |-> <<"A"," ","b">>]

\* {id: "002", name: "Standing Defense!-Lack Of Injury In Fact"}: a name
\* of 40 characters
Attack2 == [id |-> Id002,
            name |-> <<"S","t","a","n","d","i","n","g"," ","D",
                       "e","f","e","n","s","e","!","-","L","a",
                       "c","k"," ","O","f"," ","I","n","j","u",
                       "r","y"," ","I","n"," ","F","a","c","t">>]

AttackPool == {Attack1, Attack2}

\* the names of these attacks
AttackNames == {a.name : a \in AttackPool}

\* attack_name_slug, for each of the names
attack_name_slug == [name \in AttackNames |-> Slug(name)]

\* f"{attack_id}_{attack_name_slug}"
AttackDirName(attack) == attack.id \o <<"_">> \o attack_name_slug[attack.name]

\* the attack lists an ATTACKS.json may hold (the empty list included)
AttackLists == UNION {[1..n -> AttackPool] : n \in 0..MaxAttacks}

\* args.attack: absent, or an id
NoAttack == <<>>

AttackArgs == {NoAttack, Id002}

\* the per-attack artifact file names
EVIDENCE == "EVIDENCE_ANALYSIS.json"

COUNTER == "counter_requirements.json"

ANALYSIS == "analysis.md"

ArtifactNames == {EVIDENCE, COUNTER, ANALYSIS}

\* paths: root is the directory class, dir the attack directory name
AttacksPath == [root |-> "strategy", dir |-> <<>>, name |-> "ATTACKS.json"]

GapPath == [root |-> "strategy", dir |-> <<>>, name |-> "GAP_ANALYSIS.md"]

SettingsPath == [root |-> "case-context", dir |-> <<>>, name |-> "settings.json"]

\* attack_dir / name
ArtifactPath(d, n) == [root |-> "attacks", dir |-> d, name |-> n]

\* the value of a variable that holds None
None == [root |-> "none", dir |-> <<>>, name |-> "None"]

\* file contents: an unparseable file, a JSON object (with its attacks
\* list, empty when the key is absent), or any other artifact text;
\* ver tells a file left by an earlier run from one written in this run
BadFile(v) == [kind |-> "bad", attacks |-> <<>>, ver |-> v]

JsonFile(l, v) == [kind |-> "json", attacks |-> l, ver |-> v]

TextFile(v) == [kind |-> "text", attacks |-> <<>>, ver |-> v]

\* the loaded value of a file that could not be read or parsed
Null == [kind |-> "null", attacks |-> <<>>, ver |-> "none"]

(* ------------------------------- state ---------------------------------- *)

\* no returned text at hand
NoText == "none"

\* the texts an invocation may return: a report of success, or of failure
ReturnTexts == {"success", "failure"}

\* no GPTResearcher(...) call is at hand
NoCall == [query |-> "none"]

VARIABLES
    args,               \* parsed command line
    caseFolderExists,   \* case_folder.exists()
    workspaceExists,    \* workspace_dir.exists()
    motion,             \* the attacks the opposing motion holds
    disk,               \* existing files: path -> content
    dirs,               \* existing attack directories
    pc,                 \* position in main()
    attacks_file,       \* main()'s attacks_file
    attacks,            \* main()'s attacks (after the --attack filter)
    i,                  \* index of the attack the loop is at
    evidence_file,      \* main()'s evidence_file
    counter_req_file,   \* main()'s counter_req_file
    inflight,           \* agent invocations issued and not yet returned
    wrote,              \* whether the invocation that just returned wrote its output file
    returned,           \* the text the invocation that just returned gave back, until it is dropped
    kwargs,             \* the keyword arguments of a GPTResearcher(...) call, or NoCall
    researcher,         \* the GPTResearcher object constructed, or None
    context,            \* the artifact files Phase E put into its context
    exitCode,           \* process exit status, -1 while running
    exception,          \* the exception that ended the run, "none" otherwise
    log                 \* what the run did so far, in order

vars == <<args, caseFolderExists, workspaceExists, motion, disk, dirs, pc,
          attacks_file, attacks, i, evidence_file, counter_req_file,
          inflight, wrote, returned, kwargs, researcher, context, exitCode, exception, log>>

\* one entry of the log: what was done, by which phase, for which list
\* entry (0 outside the loop), on which path
Event(ev, phase, idx, path) ==
    [ev |-> ev, phase |-> phase, idx |-> idx, path |-> path]

\* Path.exists()
Exists(p) == p \in DOMAIN disk

\* load_json_file: the parsed value, null on a missing or unparseable file
load_json_file(p) ==
    IF Exists(p) /\ disk[p].kind = "json" THEN disk[p] ELSE Null

\* the disk after content c is written to path p
WriteFile(d, p, c) == [q \in (DOMAIN d) \cup {p} |-> IF q = p THEN c ELSE d[q]]

\* the directory in which an earlier run may have left artifacts
OldDir == AttackDirName(Attack1)

\* the artifacts it may have left there
OldSets == {{}, {EVIDENCE}, ArtifactNames}

\* the files present when the run starts
InitialDisk(settings, attacksJson, old) ==
    [p \in ({SettingsPath : x \in {settings} \ {"missing"}}
            \cup {AttacksPath : x \in {attacksJson} \ {"missing"}}
            \cup {ArtifactPath(OldDir, n) : n \in old})
       |-> IF p = SettingsPath
           THEN IF settings = "json" THEN JsonFile(<<>>, "old") ELSE BadFile("old")
           ELSE IF p = AttacksPath
           THEN IF attacksJson = "json" THEN JsonFile(motion, "old") ELSE BadFile("old")
           ELSE TextFile("old")]

\* the state in which main() starts, for given sets of command lines,
\* motions and earlier artifacts; with validFiles the case folder, the
\* workspace and settings.json are all there
InitOver(argSet, lists, olds, validFiles) ==
    /\ args \in argSet
    /\ caseFolderExists \in BOOLEAN
    /\ workspaceExists \in BOOLEAN
    /\ (~caseFolderExists => ~workspaceExists)
    /\ motion \in lists
    /\ \E settings \in {"missing", "bad", "json"},
          attacksJson \in {"missing", "bad", "json"},
          old \in olds :
          \* a file lies in a directory that exists
          /\ (~caseFolderExists => settings = "missing")
          /\ (~workspaceExists => attacksJson = "missing" /\ old = {})
          /\ (validFiles => workspaceExists /\ settings = "json" /\ attacksJson # "bad")
          /\ disk = InitialDisk(settings, attacksJson, old)
          /\ dirs = IF old = {} THEN {} ELSE {OldDir}
    /\ pc = "start"
    /\ attacks_file = AttacksPath
    /\ attacks = <<>>
    /\ i = 0
    /\ evidence_file = None
    /\ counter_req_file = None
    /\ inflight = {}
    /\ wrote = FALSE
    /\ returned = NoText
    /\ kwargs = NoCall
    /\ researcher = None
    /\ context = {}
    /\ exitCode = -1
    /\ exception = "none"
    /\ log = <<>>

\* every command line
AllArgs == [auto_detect : BOOLEAN, skip_evidence : BOOLEAN,
            skip_counter_req : BOOLEAN, attack : AttackArgs]

Init == InitOver(AllArgs, AttackLists, OldSets, FALSE)

(* ------------------------------ the agent ------------------------------- *)

\* an invocation of run_agent_defensive with output_file set
Invocation(phase, idx, output_file) ==
    [phase |-> phase, idx |-> idx, output_file |-> output_file]

\* (variant: the caller goes on without waiting for the agent)
run_agent_no_wait(phase, idx, output_file, loads, waitPc) ==
    /\ inflight' = inflight \cup {Invocation(phase, idx, output_file)}
    /\ log' = log \o [k \in 1..Len(loads) |-> Event("load", phase, idx, loads[k])]
                  \o <<Event("call", phase, idx, output_file)>>
    /\ pc' = CASE waitPc = "phase0_wait" -> "phase0_verify"
               [] waitPc = "A_wait" -> "A_verify"
               [] waitPc = "B_wait" -> "B_verify"
               [] waitPc = "D_wait" -> "D_verify"
               [] waitPc = "E_wait" -> "E_verify"

\* run_agent_defensive: issue the invocation and block until it returns
\* (loads: the files the phase function read to build the context)
run_agent_defensive(phase, idx, output_file, loads, waitPc) ==
    /\ inflight' = inflight \cup {Invocation(phase, idx, output_file)}
    /\ log' = log \o [k \in 1..Len(loads) |-> Event("load", phase, idx, loads[k])]
                  \o <<Event("call", phase, idx, output_file)>>
    /\ pc' = waitPc

\* the agent wrote no file
NoOutput == [kind |-> "none", attacks |-> <<>>, ver |-> "none"]

\* what the agent may leave at its output path: nothing, or a file; for
\* ATTACKS.json the file may be unparseable, hold no attacks, or hold the
\* attacks of the motion
AgentOutputs(inv) ==
    IF inv.phase = "0"
    THEN {NoOutput, BadFile("new"), JsonFile(<<>>, "new"), JsonFile(motion, "new")}
    ELSE {NoOutput, TextFile("new")}

\* the invocation in flight returns
RunAgentReturns ==
    /\ pc \in {"phase0_wait", "A_wait", "B_wait", "D_wait", "E_wait"}
    /\ \E inv \in inflight :
         /\ \E out \in AgentOutputs(inv) :
              /\ disk' = IF out = NoOutput THEN disk
                         ELSE WriteFile(disk, inv.output_file, out)
              /\ wrote' = (out # NoOutput)
              /\ returned' \in ReturnTexts
              /\ UNCHANGED <<kwargs, researcher>>
         /\ inflight' = inflight \ {inv}
         /\ log' = Append(log, Event("return", inv.phase, inv.idx, inv.output_file))
         /\ pc' = CASE inv.phase = "0" -> "phase0_verify"
                    [] inv.phase = "A" -> "A_verify"
                    [] inv.phase = "B" -> "B_verify"
                    [] inv.phase = "D" -> "D_verify"
                    [] inv.phase = "E" -> "E_verify"
    /\ UNCHANGED <<args, caseFolderExists, workspaceExists, motion, dirs,
                   attacks_file, attacks, i, evidence_file, counter_req_file,
                   exitCode, exception, context>>

(* ------------------------- main(): validation --------------------------- *)

\* log(..., "ERROR") and sys.exit(1)
Exit1(reason, path) ==
    /\ log' = Append(log, Event("error", reason, 0, path))
    /\ pc' = "exit"
    /\ exitCode' = 1
    /\ exception' = "none"

\* an exception nobody catches: traceback, exit status 1
Raise(e) ==
    /\ pc' = "crash"
    /\ exitCode' = 1
    /\ exception' = e

\* validate paths; create the strategy directory
CheckPaths ==
    /\ pc = "start"
    /\ IF ~caseFolderExists
       THEN Exit1("case_folder", None)
       ELSE IF ~workspaceExists
       THEN Exit1("workspace", None)
       ELSE /\ pc' = "settings"
            /\ UNCHANGED <<exitCode, exception, log>>
    /\ UNCHANGED <<args, caseFolderExists, workspaceExists, motion, disk, dirs,
                   attacks_file, attacks, i, evidence_file, counter_req_file,
                   inflight, wrote, returned, kwargs, researcher, context>>

\* settings = load_json_file(settings_file); settings.get(...)
LoadSettings ==
    /\ pc = "settings"
    /\ IF load_json_file(SettingsPath) = Null
       THEN Raise("AttributeError")
       ELSE /\ pc' = IF args.auto_detect THEN "phase0" ELSE "load_attacks"
            /\ UNCHANGED <<exitCode, exception>>
    /\ UNCHANGED <<args, caseFolderExists, workspaceExists, motion, disk, dirs,
                   attacks_file, attacks, i, evidence_file, counter_req_file,
                   inflight, wrote, returned, kwargs, researcher, log, context>>

(* ------------------------------ Phase 0 --------------------------------- *)

\* phase_0_detect_attacks up to its agent call
phase_0_detect_attacks ==
    /\ pc = "phase0"
    /\ run_agent_defensive("0", 0, AttacksPath, <<>>, "phase0_wait")
    /\ UNCHANGED <<args, caseFolderExists, workspaceExists, motion, disk, dirs,
                   attacks_file, attacks, i, evidence_file, counter_req_file,
                   wrote, returned, kwargs, researcher, exitCode, exception, context>>

\* (variant: only the existence of the file is verified)
Phase0ResultExistsOnly == IF ~Exists(AttacksPath) THEN None ELSE AttacksPath

\* the value phase_0_detect_attacks returns: the path, or None
Phase0Result ==
    IF ~Exists(AttacksPath) THEN None
    ELSE IF load_json_file(AttacksPath) = Null
            \/ load_json_file(AttacksPath).attacks = <<>> THEN None
    ELSE AttacksPath

\* phase_0_detect_attacks after its agent call, and main()'s check of
\* the value it returned
Phase0Verify ==
    /\ pc = "phase0_verify"
    /\ attacks_file' = Phase0Result
    /\ IF Phase0Result = None
       THEN Exit1("auto_detect", AttacksPath)
       ELSE /\ log' = Append(log, Event("created", "0", 0, AttacksPath))
            /\ pc' = "load_attacks"
            /\ UNCHANGED <<exitCode, exception>>
    /\ wrote' = FALSE
    /\ returned' = NoText
    /\ UNCHANGED <<kwargs, researcher>>
    /\ UNCHANGED <<args, caseFolderExists, workspaceExists, motion, disk, dirs,
                   attacks, i, evidence_file, counter_req_file, inflight, context>>

(* ------------------------ main(): the attack list ----------------------- *)

\* [a for a in attacks if a["id"] == args.attack]
RECURSIVE FilterById(_, _)
FilterById(l, id) ==
    IF l = <<>> THEN <<>>
    ELSE IF Head(l).id = id THEN <<Head(l)>> \o FilterById(Tail(l), id)
    ELSE FilterById(Tail(l), id)

\* (variant: an id that matches nothing selects every attack)
SelectedOrAll(l) ==
    IF args.attack = NoAttack \/ FilterById(l, args.attack) = <<>>
    THEN l ELSE FilterById(l, args.attack)

\* the attacks main() will process
Selected(l) == IF args.attack = NoAttack THEN l ELSE FilterById(l, args.attack)

\* (variant: the loop stops one entry early)
LoopPcStopsEarly(idx, l) == IF idx < Len(l) THEN "A" ELSE "sleepE"

\* the position after entry idx - 1: the loop body, or Phase E's delay
LoopPc(idx, l) == IF idx <= Len(l) THEN "A" ELSE "sleepE"

\* ATTACKS.json exists, loads, holds attacks; the --attack filter
LoadAttacks ==
    /\ pc = "load_attacks"
    /\ IF ~Exists(attacks_file)
       THEN Exit1("attacks_file", attacks_file) /\ UNCHANGED <<attacks, i>>
       ELSE IF load_json_file(attacks_file) = Null
       THEN Raise("AttributeError") /\ UNCHANGED <<attacks, i, log>>
       ELSE IF load_json_file(attacks_file).attacks = <<>>
       THEN Exit1("no_attacks", attacks_file) /\ UNCHANGED <<attacks, i>>
       ELSE IF Selected(load_json_file(attacks_file).attacks) = <<>>
       THEN Exit1("attack_not_found", attacks_file) /\ attacks' = <<>> /\ UNCHANGED i
       ELSE /\ attacks' = Selected(load_json_file(attacks_file).attacks)
            /\ i' = 1
            /\ pc' = LoopPc(1, Selected(load_json_file(attacks_file).attacks))
            /\ UNCHANGED <<exitCode, exception, log>>
    /\ UNCHANGED <<args, caseFolderExists, workspaceExists, motion, disk, dirs,
                   attacks_file, evidence_file, counter_req_file, inflight,
                   wrote, returned, kwargs, researcher, context>>

(* --------------------------- the attack loop ---------------------------- *)

\* the attack the loop is at
attack == attacks[i]

\* attack_dir of the attack the loop is at
attack_dir == AttackDirName(attack)

\* (variant: the resume flag is ignored)
SkipPhaseANever == FALSE

\* args.skip_evidence and evidence_file.exists()
SkipPhaseA == args.skip_evidence /\ Exists(ArtifactPath(attack_dir, EVIDENCE))

\* (variant: the flag alone skips the phase)
SkipPhaseBFlagOnly == args.skip_counter_req

\* args.skip_counter_req and counter_req_file.exists()
SkipPhaseB == args.skip_counter_req /\ Exists(ArtifactPath(attack_dir, COUNTER))

\* top of the loop body, and Phase A unless --skip-evidence finds its file
PhaseA ==
    /\ pc = "A"
    /\ dirs' = dirs \cup {attack_dir}
    /\ evidence_file' = ArtifactPath(attack_dir, EVIDENCE)
    /\ IF SkipPhaseA
       THEN /\ log' = Append(log, Event("skip", "A", i, ArtifactPath(attack_dir, EVIDENCE)))
            /\ pc' = "sleepB"
            /\ UNCHANGED inflight
       ELSE run_agent_defensive("A", i, ArtifactPath(attack_dir, EVIDENCE), <<>>, "A_wait")
    /\ UNCHANGED <<args, caseFolderExists, workspaceExists, motion, disk,
                   attacks_file, attacks, i, counter_req_file, wrote, returned, kwargs, researcher,
                   exitCode, exception, context>>

\* (variant: a missing EVIDENCE_ANALYSIS.json ends the run)
PhaseAVerifyAborts ==
    /\ pc = "A_verify"
    /\ IF Exists(ArtifactPath(attack_dir, EVIDENCE))
       THEN /\ log' = Append(log, Event("created", "A", i, ArtifactPath(attack_dir, EVIDENCE)))
            /\ pc' = "sleepB"
            /\ UNCHANGED <<exitCode, exception>>
       ELSE Exit1("A", ArtifactPath(attack_dir, EVIDENCE))
    /\ evidence_file' = ArtifactPath(attack_dir, EVIDENCE)
    /\ wrote' = FALSE
    /\ returned' = NoText
    /\ UNCHANGED <<kwargs, researcher>>
    /\ UNCHANGED <<args, caseFolderExists, workspaceExists, motion, disk, dirs,
                   attacks_file, attacks, i, counter_req_file, inflight,
                   context>>

\* phase_a_evidence_analysis after its agent call: log, return output_file
PhaseAVerify ==
    /\ pc = "A_verify"
    /\ log' = Append(log, Event(IF Exists(ArtifactPath(attack_dir, EVIDENCE))
                                THEN "created" ELSE "error",
                                "A", i, ArtifactPath(attack_dir, EVIDENCE)))
    /\ evidence_file' = ArtifactPath(attack_dir, EVIDENCE)
    /\ wrote' = FALSE
    /\ returned' = NoText
    /\ UNCHANGED <<kwargs, researcher>>
    /\ pc' = "sleepB"
    /\ UNCHANGED <<args, caseFolderExists, workspaceExists, motion, disk, dirs,
                   attacks_file, attacks, i, counter_req_file, inflight,
                   exitCode, exception, context>>

\* time.sleep(5) before Phase B
SleepBeforeB ==
    /\ pc = "sleepB"
    /\ log' = Append(log, Event("sleep", "B", i, None))
    /\ pc' = "B"
    /\ UNCHANGED <<args, caseFolderExists, workspaceExists, motion, disk, dirs,
                   attacks_file, attacks, i, evidence_file, counter_req_file,
                   inflight, wrote, returned, kwargs, researcher, exitCode, exception, context>>

\* Phase B unless --skip-counter-req finds its file; phase_b_counter_requirements
\* loads the evidence analysis, then calls the agent
PhaseB ==
    /\ pc = "B"
    /\ counter_req_file' = ArtifactPath(attack_dir, COUNTER)
    /\ IF SkipPhaseB
       THEN /\ log' = Append(log, Event("skip", "B", i, ArtifactPath(attack_dir, COUNTER)))
            /\ pc' = "sleepD"
            /\ UNCHANGED inflight
       ELSE run_agent_defensive("B", i, ArtifactPath(attack_dir, COUNTER),
                                <<evidence_file>>, "B_wait")
    /\ UNCHANGED <<args, caseFolderExists, workspaceExists, motion, disk, dirs,
                   attacks_file, attacks, i, evidence_file, wrote, returned, kwargs, researcher,
                   exitCode, exception, context>>

\* (variant: success is read off the returned text)
PhaseBVerifyByText ==
    /\ pc = "B_verify"
    /\ log' = Append(log, Event(IF returned = "success" THEN "created" ELSE "error",
                                "B", i, ArtifactPath(attack_dir, COUNTER)))
    /\ counter_req_file' = ArtifactPath(attack_dir, COUNTER)
    /\ wrote' = FALSE
    /\ returned' = NoText
    /\ UNCHANGED <<kwargs, researcher>>
    /\ pc' = "sleepD"
    /\ UNCHANGED <<args, caseFolderExists, workspaceExists, motion, disk, dirs,
                   attacks_file, attacks, i, evidence_file, inflight,
                   exitCode, exception, context>>

\* phase_b_counter_requirements after its agent call
PhaseBVerify ==
    /\ pc = "B_verify"
    /\ log' = Append(log, Event(IF Exists(ArtifactPath(attack_dir, COUNTER))
                                THEN "created" ELSE "error",
                                "B", i, ArtifactPath(attack_dir, COUNTER)))
    /\ counter_req_file' = ArtifactPath(attack_dir, COUNTER)
    /\ wrote' = FALSE
    /\ returned' = NoText
    /\ UNCHANGED <<kwargs, researcher>>
    /\ pc' = "sleepD"
    /\ UNCHANGED <<args, caseFolderExists, workspaceExists, motion, disk, dirs,
                   attacks_file, attacks, i, evidence_file, inflight,
                   exitCode, exception, context>>

\* time.sleep(5) before Phase D
SleepBeforeD ==
    /\ pc = "sleepD"
    /\ log' = Append(log, Event("sleep", "D", i, None))
    /\ pc' = "D"
    /\ UNCHANGED <<args, caseFolderExists, workspaceExists, motion, disk, dirs,
                   attacks_file, attacks, i, evidence_file, counter_req_file,
                   inflight, wrote, returned, kwargs, researcher, exitCode, exception, context>>

\* (variant: Phase D is told to write counter_requirements.json)
PhaseDWrongFile ==
    /\ pc = "D"
    /\ run_agent_defensive("D", i, ArtifactPath(attack_dir, COUNTER),
                           <<evidence_file, counter_req_file>>, "D_wait")
    /\ UNCHANGED <<args, caseFolderExists, workspaceExists, motion, disk, dirs,
                   attacks_file, attacks, i, evidence_file, counter_req_file,
                   wrote, returned, kwargs, researcher, exitCode, exception, context>>

\* phase_d_viability_analysis: load both artifacts, call the agent
PhaseD ==
    /\ pc = "D"
    /\ run_agent_defensive("D", i, ArtifactPath(attack_dir, ANALYSIS),
                           <<evidence_file, counter_req_file>>, "D_wait")
    /\ UNCHANGED <<args, caseFolderExists, workspaceExists, motion, disk, dirs,
                   attacks_file, attacks, i, evidence_file, counter_req_file,
                   wrote, returned, kwargs, researcher, exitCode, exception, context>>

\* attack != attacks[-1]
MoreAttacks(a, l) == a # l[Len(l)]

\* (variant: the loop is left when analysis.md is missing)
PhaseDVerifyBreaks ==
    /\ pc = "D_verify"
    /\ IF Exists(ArtifactPath(attack_dir, ANALYSIS))
       THEN /\ log' = Append(log, Event("created", "D", i, ArtifactPath(attack_dir, ANALYSIS)))
            /\ IF MoreAttacks(attack, attacks)
               THEN pc' = "sleepNext" /\ UNCHANGED i
               ELSE i' = i + 1 /\ pc' = LoopPc(i + 1, attacks)
            /\ UNCHANGED <<exitCode, exception>>
       ELSE Exit1("D", ArtifactPath(attack_dir, ANALYSIS)) /\ UNCHANGED i
    /\ wrote' = FALSE
    /\ returned' = NoText
    /\ UNCHANGED <<kwargs, researcher>>
    /\ UNCHANGED <<args, caseFolderExists, workspaceExists, motion, disk, dirs,
                   attacks_file, attacks, evidence_file, counter_req_file,
                   inflight, context>>

\* phase_d_viability_analysis after its agent call, and the end of the
\* loop body
PhaseDVerify ==
    /\ pc = "D_verify"
    /\ log' = Append(log, Event(IF Exists(ArtifactPath(attack_dir, ANALYSIS))
                                THEN "created" ELSE "error",
                                "D", i, ArtifactPath(attack_dir, ANALYSIS)))
    /\ wrote' = FALSE
    /\ returned' = NoText
    /\ UNCHANGED <<kwargs, researcher>>
    /\ IF MoreAttacks(attack, attacks)
       THEN pc' = "sleepNext" /\ UNCHANGED i
       ELSE i' = i + 1 /\ pc' = LoopPc(i + 1, attacks)
    /\ UNCHANGED <<args, caseFolderExists, workspaceExists, motion, disk, dirs,
                   attacks_file, attacks, evidence_file, counter_req_file,
                   inflight, exitCode, exception, context>>

\* time.sleep(delay_between_attacks), then the next attack
SleepBetweenAttacks ==
    /\ pc = "sleepNext"
    /\ log' = Append(log, Event("sleep", "next", i, None))
    /\ i' = i + 1
    /\ pc' = LoopPc(i + 1, attacks)
    /\ UNCHANGED <<args, caseFolderExists, workspaceExists, motion, disk, dirs,
                   attacks_file, attacks, evidence_file, counter_req_file,
                   inflight, wrote, returned, kwargs, researcher, exitCode, exception, context>>

(* ------------------------------ Phase E --------------------------------- *)

\* time.sleep(5) before Phase E
SleepBeforeE ==
    /\ pc = "sleepE"
    /\ log' = Append(log, Event("sleep", "E", 0, None))
    /\ pc' = "E"
    /\ UNCHANGED <<args, caseFolderExists, workspaceExists, motion, disk, dirs,
                   attacks_file, attacks, i, evidence_file, counter_req_file,
                   inflight, wrote, returned, kwargs, researcher, exitCode, exception, context>>

\* (variant: only the directories of the attacks of this run are searched)
GlobProcessed(name) ==
    {p \in DOMAIN disk : /\ p.root = "attacks"
                         /\ p.name = name
                         /\ \E k \in 1..Len(attacks) : p.dir = AttackDirName(attacks[k])}

\* strategy_dir.glob("attacks/*/" + name)
Glob(name) == {p \in DOMAIN disk : p.root = "attacks" /\ p.name = name}

\* the files phase_e_gap_analysis puts into its context, besides ATTACKS.json
PhaseEContext == Glob(EVIDENCE) \cup Glob(COUNTER) \cup Glob(ANALYSIS)

\* phase_e_gap_analysis up to its agent call
phase_e_gap_analysis ==
    /\ pc = "E"
    /\ context' = PhaseEContext
    /\ run_agent_defensive("E", 0, GapPath, <<AttacksPath>>, "E_wait")
    /\ UNCHANGED <<args, caseFolderExists, workspaceExists, motion, disk, dirs,
                   attacks_file, attacks, i, evidence_file, counter_req_file,
                   wrote, returned, kwargs, researcher, exitCode, exception>>

\* (variant: the summary replaces blanks only)
SummarySlugBlanksOnly(name) == Take(Replace(ToLower(name), " ", "_"), SlugLen)

\* attack["name"].lower().replace(" ", "_").replace("-", "_")[:30], as
\* the final summary computes it again
SummarySlug(name) == Take(Replace(Replace(ToLower(name), " ", "_"), "-", "_"), SlugLen)

\* the summary's slug, for each of the names
summary_slug == [name \in AttackNames |-> SummarySlug(name)]

\* the directory name in the final summary
SummaryDirName(a) == a.id \o <<"_">> \o summary_slug[a.name]

\* the order in which the summary lists an attack's files
SummaryNames == <<EVIDENCE, COUNTER, ANALYSIS>>

\* "Files created/updated": three lines per attack, then GAP_ANALYSIS.md
Summary(l) ==
    [k \in 1..(3 * Len(l)) |->
        Event("summary", "main", ((k - 1) \div 3) + 1,
              ArtifactPath(SummaryDirName(l[((k - 1) \div 3) + 1]),
                           SummaryNames[((k - 1) % 3) + 1]))]
    \o <<Event("summary", "main", 0, GapPath)>>

\* phase_e_gap_analysis after its agent call, and the final summary
PhaseEVerify ==
    /\ pc = "E_verify"
    /\ log' = log \o <<Event(IF Exists(GapPath) THEN "created" ELSE "error",
                             "E", 0, GapPath)>>
                  \o Summary(attacks)
    /\ wrote' = FALSE
    /\ returned' = NoText
    /\ UNCHANGED <<kwargs, researcher>>
    /\ pc' = "done"
    /\ exitCode' = 0
    /\ UNCHANGED <<args, caseFolderExists, workspaceExists, motion, disk, dirs,
                   attacks_file, attacks, i, evidence_file, counter_req_file,
                   inflight, context, exception>>

(* --------------------------- specification ------------------------------ *)

Next ==
    \/ CheckPaths
    \/ LoadSettings
    \/ phase_0_detect_attacks
    \/ RunAgentReturns
    \/ Phase0Verify
    \/ LoadAttacks
    \/ PhaseA
    \/ PhaseAVerify
    \/ SleepBeforeB
    \/ PhaseB
    \/ PhaseBVerify
    \/ SleepBeforeD
    \/ PhaseD
    \/ PhaseDVerify
    \/ SleepBetweenAttacks
    \/ SleepBeforeE
    \/ phase_e_gap_analysis
    \/ PhaseEVerify

Spec == Init /\ [][Next]_vars

\* the lists 1, 1 2, 1 2 1, ... : one list of each length
AlternatingLists ==
    {[k \in 1..n |-> IF k % 2 = 1 THEN Attack1 ELSE Attack2] : n \in 0..MaxAttacks}

\* runs whose paths and settings are valid, over one list of each length
LiveInit == InitOver(AllArgs, AlternatingLists, OldSets, TRUE)

\* the process runs until it exits, and every agent invocation returns:
\* a step that is enabled is eventually taken
LiveSpec == LiveInit /\ [][Next]_vars /\ WF_vars(Next)

TypeOK ==
    /\ pc \in {"start", "settings", "phase0", "phase0_wait", "phase0_verify",
               "load_attacks", "A", "A_wait", "A_verify", "sleepB", "B",
               "B_wait", "B_verify", "sleepD", "D", "D_wait", "D_verify",
               "sleepNext", "sleepE", "E", "E_wait", "E_verify",
               "done", "exit", "crash"}
    /\ exitCode \in {-1, 0, 1}
    /\ i \in 0..(MaxAttacks + 1)

(* ---------------------- the directory name alone ----------------------- *)

\* the longest of the short names tried
MaxNameLen == 3

\* the characters of the short names: a capital, a small letter, a blank,
\* a hyphen, a punctuation mark
NameChars == {"A", "b", " ", "-", "!"}

\* the name of the spec's example, "Standing Defense!!"
StandingDefense ==
    <<"S","t","a","n","d","i","n","g"," ","D","e","f","e","n","s","e","!","!">>

\* the names tried: every short name, the example, and names of 29, 30,
\* 31 and 40 characters
SlugNames ==
    UNION {[1..n -> NameChars] : n \in 0..MaxNameLen}
      \cup {StandingDefense, Attack2.name}
      \cup {SubSeq(Attack2.name, 1, n) : n \in 29..31}

\* one attack with one of these names, before the loop body
SlugInit ==
    /\ args = [auto_detect |-> FALSE, skip_evidence |-> FALSE,
               skip_counter_req |-> FALSE, attack |-> NoAttack]
    /\ caseFolderExists = TRUE
    /\ workspaceExists = TRUE
    /\ \E name \in SlugNames : motion = <<[id |-> Id002, name |-> name]>>
    /\ disk = InitialDisk("json", "json", {})
    /\ dirs = {}
    /\ pc = "mkdir"
    /\ attacks_file = AttacksPath
    /\ attacks = motion
    /\ i = 1
    /\ evidence_file = None
    /\ counter_req_file = None
    /\ inflight = {}
    /\ wrote = FALSE
    /\ returned = NoText
    /\ kwargs = NoCall
    /\ researcher = None
    /\ context = {}
    /\ exitCode = -1
    /\ exception = "none"
    /\ log = <<>>

\* the head of the loop body: attack_name_slug, attack_dir, mkdir
MakeAttackDir ==
    /\ pc = "mkdir"
    /\ dirs' = dirs \cup {attack.id \o <<"_">> \o Slug(attack.name)}
    /\ pc' = "summary"
    /\ UNCHANGED <<args, caseFolderExists, workspaceExists, motion, disk,
                   attacks_file, attacks, i, evidence_file, counter_req_file,
                   inflight, wrote, returned, kwargs, researcher, context, exitCode, exception, log>>

\* the lines of the final summary for the attack
SummaryLines ==
    /\ pc = "summary"
    /\ log' = log \o [k \in 1..3 |->
                        Event("summary", "main", i,
                              ArtifactPath(attack.id \o <<"_">> \o SummarySlug(attack.name),
                                           SummaryNames[k]))]
    /\ pc' = "listed"
    /\ UNCHANGED <<args, caseFolderExists, workspaceExists, motion, disk, dirs,
                   attacks_file, attacks, i, evidence_file, counter_req_file,
                   inflight, wrote, returned, kwargs, researcher, context, exitCode, exception>>

SlugNext == MakeAttackDir \/ SummaryLines

SlugSpec == SlugInit /\ [][SlugNext]_vars

(* ------------------------ the research agent wrapper -------------------- *)

\* a keyword argument that is not passed
Omitted == [given |-> FALSE]

\* the value None passed for a keyword argument
PyNone == [given |-> TRUE, isNone |-> TRUE]

\* a dict passed for a keyword argument
Dict(d) == [given |-> TRUE, isNone |-> FALSE, dict |-> d]

\* the empty dict
EmptyDict == Dict(<<>>)

\* the keys and paths of case_documents mappings
DocKeys == {"motion", "complaint", "attacks"}

DocPaths == {"/tmp/a.txt", "/tmp/b.txt"}

\* the case_documents mappings tried: every mapping of some of the keys
\* to the paths
DocDicts == {Dict(d) : d \in UNION {[ks -> DocPaths] : ks \in SUBSET DocKeys}}

\* the context_packet mappings tried
PacketDicts == {Dict(d) : d \in UNION {[ks -> {"Georgia", "Ohio"}] :
                                         ks \in SUBSET {"jurisdiction"}}}

\* the keyword arguments of GPTResearcher(query=..., ...)
CallArgs ==
    [query : {"Test query"},
     context_packet : PacketDicts \cup {PyNone, Omitted},
     case_documents : DocDicts \cup {PyNone, Omitted}]

\* a parameter with default None: the value passed, None when omitted
OrNone(v) == IF v.given THEN v ELSE PyNone

\* v or {}
OrEmptyDict(v) == IF OrNone(v) = PyNone THEN EmptyDict ELSE v

\* (variant: case_documents is also merged into the context packet)
GPTResearcherMerges(kw) ==
    [query |-> kw.query,
     context_packet |-> IF OrNone(kw.case_documents) = PyNone
                        THEN OrNone(kw.context_packet)
                        ELSE kw.case_documents,
     case_documents |-> OrEmptyDict(kw.case_documents)]

\* GPTResearcher.__init__: the attributes of the object
GPTResearcher(kw) ==
    [query |-> kw.query,
     context_packet |-> OrNone(kw.context_packet),
     case_documents |-> OrEmptyDict(kw.case_documents)]

\* a test is about to construct a researcher
CtorInit ==
    /\ kwargs \in CallArgs
    /\ researcher = None
    /\ args = [auto_detect |-> FALSE, skip_evidence |-> FALSE,
               skip_counter_req |-> FALSE, attack |-> NoAttack]
    /\ caseFolderExists = TRUE
    /\ workspaceExists = TRUE
    /\ motion = <<>>
    /\ disk = InitialDisk("missing", "missing", {})
    /\ dirs = {}
    /\ pc = "construct"
    /\ attacks_file = AttacksPath
    /\ attacks = <<>>
    /\ i = 0
    /\ evidence_file = None
    /\ counter_req_file = None
    /\ inflight = {}
    /\ wrote = FALSE
    /\ returned = NoText
    /\ context = {}
    /\ exitCode = -1
    /\ exception = "none"
    /\ log = <<>>

\* researcher = GPTResearcher(**kwargs)
Construct ==
    /\ pc = "construct"
    /\ researcher' = GPTResearcher(kwargs)
    /\ pc' = "constructed"
    /\ UNCHANGED <<args, caseFolderExists, workspaceExists, motion, disk, dirs,
                   attacks_file, attacks, i, evidence_file, counter_req_file,
                   inflight, wrote, returned, kwargs, context, exitCode,
                   exception, log>>

CtorNext == Construct

CtorSpec == CtorInit /\ [][CtorNext]_vars

(* ------------------------------ properties ------------------------------ *)

\* positions of the log entries of one kind
Events(ev, phase) ==
    {k \in 1..Len(log) : log[k].ev = ev /\ log[k].phase = phase}

EventsAt(ev, phase, idx) ==
    {k \in Events(ev, phase) : log[k].idx = idx}

\* agent invocations issued so far, all phases / the phases after Phase 0
AllCalls == {k \in 1..Len(log) : log[k].ev = "call"}

RelayCalls == {k \in AllCalls : log[k].phase \in {"A", "B", "D", "E"}}

\* the run is over
Terminated == pc \in {"done", "exit", "crash"}

\* the attack list ATTACKS.json holds (empty if it cannot be loaded)
ListOnDisk == load_json_file(AttacksPath).attacks

\* a per-attack step (an invocation, or a skip by a resume flag) or the
\* Phase E invocation
IsStep(e) ==
    \/ e.ev = "call" /\ e.phase \in {"A", "B", "D", "E"}
    \/ e.ev = "skip" /\ e.phase \in {"A", "B"}

\* the steps of the relay so far, in order
StepLog == SelectSeq(log, IsStep)

\* the phases of the per-attack sequence
Sequence == <<"A", "B", "D">>

\* C1: in a run without --attack that loaded a list of N >= 1 attacks,
\* every list entry 1..N goes through the per-attack sequence exactly
\* once (its Phase A step, its Phase B step -- each an invocation, or a
\* skip by its resume flag -- and one Phase D invocation), no other entry
\* does, and Phase E is invoked exactly once: the steps taken are at any
\* moment the first ones of A1 B1 D1 ... AN BN DN E, and all 3N + 1 of
\* them when the run is done.
C1_SequenceOncePerEntry ==
    args.attack = NoAttack =>
      LET steps == StepLog
          N == Len(ListOnDisk)
      IN  /\ steps # <<>> => N >= 1
          /\ Len(steps) <= 3 * N + 1
          /\ \A k \in 1..Len(steps) :
               IF k <= 3 * N
               THEN /\ steps[k].phase = Sequence[((k - 1) % 3) + 1]
                    /\ steps[k].idx = ((k - 1) \div 3) + 1
               ELSE steps[k].phase = "E"
          /\ pc = "done" => Len(steps) = 3 * N + 1

\* a finished run over a list that repeats an entry, in which Phase E
\* left no report
C1_Witness ==
    /\ pc = "done"
    /\ args.attack = NoAttack
    /\ Len(attacks) >= 2
    /\ attacks[1] = attacks[2]
    /\ ~Exists(GapPath)

\* --attack names an id that no attack of the loaded list has
Unmatched ==
    /\ args.attack # NoAttack
    /\ ListOnDisk # <<>>
    /\ \A k \in 1..Len(ListOnDisk) : ListOnDisk[k].id # args.attack

\* C2 as stated: a run with an unmatched --attack id ends with a non-zero
\* exit code and has made no agent invocation at all.
C2_ZeroInvocations ==
    (Terminated /\ Unmatched) => (exitCode # 0 /\ AllCalls = {})

\* C2 as amended: a run with an unmatched --attack id ends with exit code
\* 1 before the relay, having made no invocation for Phase A, B, D or E;
\* the only invocation it can have made is the one of Phase 0, made
\* exactly when --auto-detect is given.
C2_NoRelayInvocations ==
    /\ (Unmatched /\ pc \notin {"start", "settings", "phase0", "phase0_wait",
                                "phase0_verify", "load_attacks"}) =>
          /\ pc \in {"exit", "crash"}
          /\ exitCode = 1
          /\ RelayCalls = {}
    /\ (Terminated /\ Unmatched /\ exception = "none") =>
          /\ Cardinality(AllCalls) = (IF args.auto_detect /\ workspaceExists THEN 1 ELSE 0)
          /\ \A k \in AllCalls : log[k].phase = "0"

\* the run was stopped by the --attack filter after Phase 0 had detected
\* the attacks
C2_Witness ==
    /\ pc = "exit"
    /\ Unmatched
    /\ args.auto_detect
    /\ log[Len(log)].phase = "attack_not_found"
    /\ Cardinality(AllCalls) = 1

\* Phase 0's agent call has returned and its result has been examined
Phase0Done == Events("return", "0") # {} /\ pc # "phase0_verify"

\* ATTACKS.json exists, parses and holds a non-empty attacks list
AttacksFileGood ==
    /\ AttacksPath \in DOMAIN disk
    /\ disk[AttacksPath].kind = "json"
    /\ Len(disk[AttacksPath].attacks) >= 1

\* C3: once Phase 0's agent call has returned, phase_0_detect_attacks
\* returns the ATTACKS.json path iff the file exists, parses and holds a
\* non-empty attacks list; otherwise it returns None and the run exits
\* with code 1 without any Phase A, B, D or E invocation.
C3_Phase0Result ==
    Phase0Done =>
      /\ (attacks_file = AttacksPath) <=> AttacksFileGood
      /\ ~AttacksFileGood =>
           /\ attacks_file = None
           /\ pc = "exit"
           /\ exitCode = 1
           /\ RelayCalls = {}
           /\ Events("skip", "A") = {}

\* Phase 0 found a parseable ATTACKS.json without attacks and the run
\* exited
C3_Witness ==
    /\ Phase0Done
    /\ AttacksPath \in DOMAIN disk
    /\ disk[AttacksPath].kind = "json"
    /\ attacks_file = None
    /\ pc = "exit"

\* an EVIDENCE_ANALYSIS.json left by an earlier run and not written since
OldEvidence(p) ==
    /\ p \in DOMAIN disk
    /\ p.name = EVIDENCE
    /\ disk[p].ver = "old"

\* C4: in a run with --skip-evidence, an EVIDENCE_ANALYSIS.json that was
\* there when the run started stays as it is in every step (hence to the
\* end of the run), no Phase A invocation targets it, and when Phase B or
\* Phase D is called for an attack of its directory, it is the file they
\* are handed.
C4_SkipEvidenceReuses ==
    [][args.skip_evidence =>
         \A p \in DOMAIN disk :
            OldEvidence(p) =>
              /\ p \in DOMAIN disk'
              /\ disk'[p] = disk[p]
              /\ \A inv \in inflight' : ~(inv.phase = "A" /\ inv.output_file = p)
              /\ (pc' \in {"B_wait", "D_wait"} /\ AttackDirName(attacks'[i']) = p.dir)
                    => evidence_file' = p]_vars

\* a finished run that skipped Phase A and left the earlier file in place
C4_Witness ==
    /\ pc = "done"
    /\ args.skip_evidence
    /\ Events("skip", "A") # {}
    /\ Events("call", "D") # {}
    /\ OldEvidence(ArtifactPath(OldDir, EVIDENCE))

\* the position main() is at after the verification logged at the end of
\* a phase of entry idx
AfterPhase(phase, idx) ==
    CASE phase = "A" -> {"sleepB"}
      [] phase = "B" -> {"sleepD"}
      [] phase = "D" -> {"sleepNext", "A", "sleepE"}
      [] phase = "E" -> {"done"}
      [] OTHER -> {}

\* C5: once the relay has started, nothing stops it: the run never exits
\* with an error; after a phase has reported its artifact as missing,
\* main() goes on exactly as after a success (Phase A is followed by the
\* delay and Phase B's step, Phase B by the delay and Phase D, Phase D by
\* the next attack or Phase E), Phase B and Phase D being called with a
\* path whose load yields null; and the finished run has taken all
\* 3 * N + 1 steps of its N attacks.  Runs end with an error exit only
\* before the relay.
C5_NoPhaseFailureHalts ==
    /\ StepLog # <<>> => pc \notin {"exit", "crash"}
    /\ \A k \in 1..Len(log) :
         (log[k].ev = "error" /\ log[k].phase \in {"A", "B", "D", "E"}) =>
            IF k = Len(log)
            THEN pc \in AfterPhase(log[k].phase, log[k].idx)
            ELSE /\ log[k].phase = "A" => log[k + 1] = Event("sleep", "B", log[k].idx, None)
                 /\ log[k].phase = "B" => log[k + 1] = Event("sleep", "D", log[k].idx, None)
                 /\ log[k].phase = "D" =>
                       \/ log[k + 1] = Event("sleep", "next", log[k].idx, None)
                       \/ log[k + 1] = Event("sleep", "E", 0, None)
                       \/ log[k + 1].phase = "A" /\ log[k + 1].idx = log[k].idx + 1
                 /\ log[k].phase = "E" => log[k + 1].ev = "summary"
    /\ (pc = "B_wait" /\ ~Exists(evidence_file)) => load_json_file(evidence_file) = Null
    /\ pc = "done" => Len(StepLog) = 3 * Len(attacks) + 1

\* a finished run in which every phase failed to produce its artifact
C5_Witness ==
    /\ pc = "done"
    /\ Events("error", "A") # {}
    /\ Events("error", "B") # {}
    /\ Events("error", "D") # {}
    /\ Events("error", "E") # {}
    /\ Len(attacks) >= 2

\* C6: a run that got past input validation (its attack list is loaded,
\* non-empty and filtered) eventually reaches DONE, whatever the agent
\* wrote or failed to write, provided every invocation returns.
C6_ReachesDone == (attacks # <<>>) ~> (pc = "done")

\* DONE with exit code 0 after a relay over two attacks in which each of
\* Phases A, B, D and E failed to produce an artifact
C6_Witness ==
    /\ pc = "done"
    /\ exitCode = 0
    /\ Len(attacks) >= 2
    /\ Events("error", "A") # {}
    /\ Events("error", "B") # {}
    /\ Events("error", "D") # {}
    /\ Events("error", "E") # {}
    /\ Events("created", "E") = {}

IsCall(e) == e.ev = "call"

\* the invocations issued so far, in order
CallLog == SelectSeq(log, IsCall)

\* the place of a phase in the per-attack sequence
PhaseRank(phase) == CASE phase = "A" -> 1 [] phase = "B" -> 2 [] phase = "D" -> 3
                      [] OTHER -> 0

\* invocation a comes before invocation b in the order of the pipeline
Precedes(a, b) ==
    \/ a.phase = "0" /\ b.phase # "0"
    \/ a.phase \in {"A", "B", "D"} /\ b.phase = "E"
    \/ /\ a.phase \in {"A", "B", "D"}
       /\ b.phase \in {"A", "B", "D"}
       /\ \/ a.idx < b.idx
          \/ a.idx = b.idx /\ PhaseRank(a.phase) < PhaseRank(b.phase)

\* C7: at most one agent invocation is in flight; an invocation has
\* returned before the run does anything else; invocations are issued in
\* the order Phase 0, then per attack in list order A, B, D, then Phase
\* E; and Phase E is called only after Phase D of the last attack has
\* returned.
C7_Sequential ==
    /\ Cardinality(inflight) <= 1
    /\ \A k \in 1..Len(log) :
         log[k].ev = "call" =>
            IF k = Len(log)
            THEN inflight = {Invocation(log[k].phase, log[k].idx, log[k].path)}
            ELSE log[k + 1] = Event("return", log[k].phase, log[k].idx, log[k].path)
    /\ (\A k \in 1..Len(log) : log[k].ev = "call" => k < Len(log)) => inflight = {}
    /\ LET calls == CallLog
       IN  \A k \in 1..(Len(calls) - 1) : Precedes(calls[k], calls[k + 1])
    /\ Events("call", "E") # {} =>
         \E k \in EventsAt("return", "D", Len(attacks)) :
            \A e \in Events("call", "E") : k < e

\* Phase E in flight after Phase 0 and the phases of two attacks
C7_Witness ==
    /\ pc = "E_wait"
    /\ Cardinality(inflight) = 1
    /\ args.auto_detect
    /\ Len(attacks) >= 2
    /\ Len(CallLog) >= 8

\* the artifact a per-attack phase is asked to write
ArtifactOf(phase) ==
    CASE phase = "A" -> EVIDENCE [] phase = "B" -> COUNTER [] phase = "D" -> ANALYSIS

\* slug(name), character by character: the first 30 characters of the
\* name, blanks and hyphens turned into underscores, letters in lower
\* case, everything else as it is
ExpectedSlug(name) ==
    [k \in 1..(IF Len(name) < 30 THEN Len(name) ELSE 30) |->
        IF name[k] \in {" ", "-"} THEN "_"
        ELSE IF \E u \in 1..Len(Upper) : Upper[u] = name[k]
             THEN Lower[CHOOSE u \in 1..Len(Upper) : Upper[u] = name[k]]
             ELSE name[k]]

\* {attack_id}_{slug(name)} for the attacks a list may hold
ExpectedDir == [a \in AttackPool |-> a.id \o <<"_">> \o ExpectedSlug(a.name)]

\* {strategy_dir}/attacks/{attack_id}_{slug(name)}/{phase_filename}
ExpectedPath(a, phase) ==
    [root |-> "attacks", dir |-> ExpectedDir[a], name |-> ArtifactOf(phase)]

\* every per-attack invocation issued so far targets the path of the
\* expected form for its attack and phase
TargetsHaveForm ==
    \A k \in AllCalls :
       log[k].phase \in {"A", "B", "D"} =>
          /\ log[k].idx \in 1..Len(attacks)
          /\ log[k].path = ExpectedPath(attacks[log[k].idx], log[k].phase)

\* no path is the target of two invocations
NoPathTargetedTwice ==
    LET calls == AllCalls
    IN  \A j \in calls : \A k \in calls : log[j].path = log[k].path => j = k

\* the attacks of the run have pairwise distinct directory names
DistinctDirs ==
    \A j \in 1..Len(attacks) : \A k \in 1..Len(attacks) :
       ExpectedDir[attacks[j]] = ExpectedDir[attacks[k]] => j = k

\* C8 as stated: for any attack list, no artifact path is targeted by two
\* invocations in the same run, and every targeted path has the form
\* {strategy_dir}/attacks/{attack_id}_{slug(name)}/{phase_filename}.
C8_NoPathTwiceAnyList == TargetsHaveForm /\ NoPathTargetedTwice

\* C8 as amended: every per-attack invocation targets the path
\* {strategy_dir}/attacks/{attack_id}_{slug(name)}/{phase_filename} of
\* its list entry; in a finished run every list entry has, for each of
\* Phases A, B and D, exactly one invocation, or none and a skip by the
\* phase's resume flag (never for Phase D); and when the directory names
\* of the run's list entries are pairwise distinct, no path is the target
\* of two invocations.
C8_OncePerEntryAndPhase ==
    /\ TargetsHaveForm
    /\ DistinctDirs => NoPathTargetedTwice
    /\ pc = "done" =>
         \A idx \in 1..Len(attacks) : \A phase \in {"A", "B", "D"} :
            LET calls == EventsAt("call", phase, idx)
                skips == EventsAt("skip", phase, idx)
            IN  /\ Cardinality(calls) + Cardinality(skips) = 1
                /\ skips # {} =>
                     /\ phase # "D"
                     /\ phase = "A" => args.skip_evidence
                     /\ phase = "B" => args.skip_counter_req
                     /\ calls = {}

\* a finished run over two attacks of different directories, one with a
\* name longer than the slug, in which Phase A was skipped for one attack
\* and invoked for the other
C8_Witness ==
    /\ pc = "done"
    /\ Len(attacks) = 2
    /\ DistinctDirs
    /\ \E k \in 1..2 : Len(attacks[k].name) > SlugLen
    /\ Events("skip", "A") # {}
    /\ Events("call", "A") # {}
    /\ Events("call", "B") # {}

\* C9: whenever Phase B is called, the EVIDENCE_ANALYSIS.json it loads
\* exists; whenever Phase D is called, the EVIDENCE_ANALYSIS.json and the
\* counter_requirements.json it loads exist; and every per-attack
\* artifact Phase E puts into its context exists: no phase reads a
\* missing artifact.
C9_ConsumersCheckExistence ==
    /\ pc = "B_wait" => Exists(evidence_file)
    /\ pc = "D_wait" => Exists(evidence_file) /\ Exists(counter_req_file)
    /\ pc = "E_wait" => \A p \in context : Exists(p)

\* one of the conditions listed for exit code 1: the case folder or the
\* workspace is missing; ATTACKS.json is missing, does not load or holds
\* no attacks (without --auto-detect: the file given; with --auto-detect:
\* the file after Phase 0, i.e. auto-detection failed); or --attack
\* matches no attack of the list
ListedFailure ==
    \/ ~caseFolderExists
    \/ ~workspaceExists
    \/ ~AttacksFileGood
    \/ Unmatched

\* C10: a run ends with exit code 1 exactly when one of the listed
\* conditions holds, and with exit code 0 in every other case, also when
\* every one of Phases A, B, D and E failed to produce its artifact.
C10_ExitCodes ==
    Terminated =>
       /\ exitCode = 1 <=> ListedFailure
       /\ ~ListedFailure => exitCode = 0

\* C11: no run of main() ends through an unhandled exception: a run that
\* is over ended through an explicit exit 1 or in DONE, whatever files
\* are missing or unparseable.
C11_NoUnhandledException ==
    /\ exception = "none"
    /\ Terminated => pc \in {"exit", "done"}

\* the positions at which a phase examines the outcome of its agent call
VerifyPcs == {"phase0_verify", "A_verify", "B_verify", "D_verify", "E_verify"}

\* the phase that examines, and the file it looks for
VerifyPhase ==
    CASE pc = "phase0_verify" -> "0" [] pc = "A_verify" -> "A"
      [] pc = "B_verify" -> "B" [] pc = "D_verify" -> "D" [] pc = "E_verify" -> "E"

VerifyFile ==
    CASE pc = "phase0_verify" -> AttacksPath
      [] pc = "E_verify" -> GapPath
      [] OTHER -> ExpectedPath(attacks[i], VerifyPhase)

\* success as the files on disk decide it: the file exists (for Phase 0:
\* exists, parses and holds attacks)
FileSuccess == IF pc = "phase0_verify" THEN AttacksFileGood ELSE Exists(VerifyFile)

\* where the run goes after the examination, as the files decide it
AfterVerify ==
    CASE pc = "phase0_verify" -> (IF FileSuccess THEN "load_attacks" ELSE "exit")
      [] pc = "A_verify" -> "sleepB"
      [] pc = "B_verify" -> "sleepD"
      [] pc = "D_verify" -> (IF attacks[i] # attacks[Len(attacks)] THEN "sleepNext"
                             ELSE IF i + 1 <= Len(attacks) THEN "A" ELSE "sleepE")
      [] pc = "E_verify" -> "done"

\* a step from an examination, as the files on disk decide it
FilesDecide ==
    pc \in VerifyPcs =>
       /\ Len(log') >= Len(log) + 1
       /\ log'[Len(log) + 1].ev = (IF FileSuccess THEN "created" ELSE "error")
       /\ pc' = AfterVerify
       /\ returned' = NoText
       /\ attacks_file' = (IF pc = "phase0_verify"
                           THEN (IF FileSuccess THEN AttacksPath ELSE None)
                           ELSE attacks_file)
       /\ evidence_file' = (IF pc = "A_verify" THEN VerifyFile ELSE evidence_file)
       /\ counter_req_file' = (IF pc = "B_verify" THEN VerifyFile
                               ELSE counter_req_file)
       /\ exitCode' = (IF pc = "phase0_verify" /\ ~FileSuccess THEN 1
                       ELSE IF pc = "E_verify" THEN 0 ELSE exitCode)
       /\ i' = (IF pc = "D_verify" /\ AfterVerify # "sleepNext" THEN i + 1 ELSE i)
       /\ disk' = disk
       /\ attacks' = attacks
       /\ exception' = exception

\* C12: the returned text is at hand only while a phase examines the
\* outcome of its call, and the examination does not depend on it: what
\* the phase reports (created or error), the value it returns, the
\* position the run goes to and the exit code are functions of the files
\* on disk alone, and the text is dropped.  Hence two runs that differ
\* only in the returned texts take the same phases, produce the same
\* return values and end with the same exit code.
C12_TextIgnored ==
    /\ [](pc \notin VerifyPcs => returned = NoText)
    /\ [][FilesDecide]_vars

\* Phase B examines a call that returned a report of failure but wrote
\* its file
C12_Witness ==
    /\ pc = "B_verify"
    /\ returned = "failure"
    /\ wrote
    /\ Exists(ExpectedPath(attacks[i], "B"))
    /\ Len(attacks) >= 2

\* the attack of the spec's example
ExampleAttack == [id |-> Id002, name |-> StandingDefense]

\* "002_standing_defense"
DirWithoutMarks ==
    <<"0","0","2","_","s","t","a","n","d","i","n","g","_",
      "d","e","f","e","n","s","e">>

\* C13 as stated: for {id: "002", name: "Standing Defense!!"} the
\* directory main() derives is attacks/002_standing_defense/.
C13_DirWithoutMarks ==
    (attacks = <<ExampleAttack>> /\ pc # "mkdir") => dirs = {DirWithoutMarks}

\* C13 as amended: for {id: "002", name: "Standing Defense!!"} the
\* directory main() derives is attacks/002_standing_defense!!/ : the two
\* exclamation marks stay.
C13_DirKeepsMarks ==
    (attacks = <<ExampleAttack>> /\ pc # "mkdir") =>
        dirs = {DirWithoutMarks \o <<"!", "!">>}

\* the directory of the example attack has been derived
C13_Witness ==
    /\ attacks = <<ExampleAttack>>
    /\ pc = "summary"
    /\ dirs # {}

\* the files in the directory of attack a
FilesOf(a) == {p \in DOMAIN disk : p.root = "attacks" /\ p.dir = ExpectedDir[a]}

\* the agent succeeded at every invocation made: the file it was asked
\* for is there, written in this run
AgentAlwaysWrote ==
    \A k \in AllCalls : Exists(log[k].path) /\ disk[log[k].path].ver = "new"

\* the end-to-end scenario at its end: ATTACKS.json holds one attack, no
\* resume flag, the run is over and the agent succeeded every time
EndToEnd ==
    /\ Terminated
    /\ caseFolderExists /\ workspaceExists
    /\ load_json_file(SettingsPath) # Null
    /\ Len(ListOnDisk) = 1
    /\ ~args.skip_evidence /\ ~args.skip_counter_req
    /\ args.attack = NoAttack
    /\ AgentAlwaysWrote

\* C14 as stated: the end-to-end run ends with exactly 4 files for the
\* attack plus GAP_ANALYSIS.md, and with exit code 0.
C14_FourFiles ==
    EndToEnd =>
       /\ Cardinality(FilesOf(ListOnDisk[1])) = 4
       /\ Exists(GapPath)
       /\ exitCode = 0

\* C14 as amended: the end-to-end run ends with exactly 3 files for the
\* attack (EVIDENCE_ANALYSIS.json, counter_requirements.json and
\* analysis.md in its directory), each written in this run, plus
\* GAP_ANALYSIS.md, and with exit code 0.
C14_ThreeFiles ==
    EndToEnd =>
       /\ FilesOf(ListOnDisk[1]) = {ExpectedPath(ListOnDisk[1], ph) : ph \in {"A", "B", "D"}}
       /\ \A p \in FilesOf(ListOnDisk[1]) : disk[p].ver = "new"
       /\ Exists(GapPath) /\ disk[GapPath].ver = "new"
       /\ pc = "done"
       /\ exitCode = 0

\* the end of an end-to-end run that began with attack detection
C14_Witness ==
    /\ EndToEnd
    /\ pc = "done"
    /\ args.auto_detect
    /\ Cardinality(AllCalls) = 5

Invoked(phase) ==
    /\ pc' = phase \o "_wait"
    /\ inflight' = {Invocation(phase, i, ExpectedPath(attacks[i], phase))}

\* a step of the loop at the point where a phase is invoked or skipped
ResumeStep ==
    /\ pc = "A" =>
          /\ Invoked("A") <=> ~(args.skip_evidence
                                /\ Exists(ExpectedPath(attacks[i], "A")))
          /\ ~Invoked("A") => pc' = "sleepB" /\ inflight' = {}
    /\ pc = "B" =>
          /\ Invoked("B") <=> ~(args.skip_counter_req
                                /\ Exists(ExpectedPath(attacks[i], "B")))
          /\ ~Invoked("B") => pc' = "sleepD" /\ inflight' = {}
    /\ pc = "D" => Invoked("D")

\* C16: for each processed attack, Phase A is invoked iff not
\* (--skip-evidence and EVIDENCE_ANALYSIS.json exists at that moment),
\* Phase B is invoked iff not (--skip-counter-req and
\* counter_requirements.json exists at that moment), otherwise the phase
\* is skipped and the loop goes on; Phase D is invoked whenever the loop
\* reaches it, and in a finished run it has been invoked for every
\* processed attack.
C16_SkipOnlyIfOnDisk ==
    /\ [][ResumeStep]_vars
    /\ [](pc = "done" => \A idx \in 1..Len(attacks) : EventsAt("call", "D", idx) # {})

\* Phase B is running although --skip-counter-req was given, because its
\* artifact is missing, after Phase A was skipped
C16_Witness ==
    /\ pc = "B_wait"
    /\ args.skip_counter_req
    /\ args.skip_evidence
    /\ ~Exists(ExpectedPath(attacks[i], "B"))
    /\ EventsAt("skip", "A", i) # {}

\* the positions of the sleeps in the log
Sleeps == {k \in 1..Len(log) : log[k].ev = "sleep"}

\* C17: in a run processing N >= 1 attacks, any two consecutive
\* invocations of the relay (Phases A, B, D of the attacks and Phase E)
\* are separated by at least one sleep, and the finished run has slept
\* exactly 3N times: twice inside every attack, once between every two
\* consecutive attacks and once before Phase E -- for every attack list,
\* also one with repeated entries.
C17_SleepsBetweenInvocations ==
    LET relay == RelayCalls
        sleeps == Sleeps
    IN  /\ \A j \in relay : \A k \in relay :
             (j < k /\ \A m \in relay : ~(j < m /\ m < k)) =>
                \E s \in sleeps : j < s /\ s < k
        /\ pc = "done" => Cardinality(sleeps) = 3 * Len(attacks)

\* the capital letters
Capitals == {Upper[k] : k \in 1..Len(Upper)}

\* dir is id + "_" + slug for a slug as the claim describes it
WellFormedDir(dir, a) ==
    LET n == Len(a.id) + 1
        slug == SubSeq(dir, n + 1, Len(dir))
    IN  /\ Len(dir) >= n
        /\ SubSeq(dir, 1, n) = a.id \o <<"_">>
        /\ Len(slug) = (IF Len(a.name) < 30 THEN Len(a.name) ELSE 30)
        /\ \A k \in 1..Len(slug) :
             /\ slug[k] \notin ({" ", "-"} \cup Capitals)
             /\ a.name[k] \in {" ", "-"} => slug[k] = "_"
             /\ a.name[k] \in Capitals => slug[k] = LowerCh(a.name[k])
             /\ a.name[k] \notin ({" ", "-"} \cup Capitals) => slug[k] = a.name[k]

\* C18: the directory made in the loop is id + "_" + slug, the slug
\* being the first 30 characters of the name with blanks and hyphens
\* turned into underscores, capitals into small letters and every other
\* character unchanged; so the slug has at most 30 characters and no
\* blank, hyphen or capital; and the directory named in the final
\* summary for the same attack is the same one.
C18_DirNameIsPure ==
    /\ pc # "mkdir" =>
          /\ Cardinality(dirs) = 1
          /\ \A dir \in dirs :
                /\ WellFormedDir(dir, attacks[1])
                /\ dir = attacks[1].id \o <<"_">> \o ExpectedSlug(attacks[1].name)
    /\ pc = "listed" =>
          /\ Len(log) = 3
          /\ \A k \in 1..Len(log) : log[k].path.dir \in dirs

\* the summary of an attack whose name has 31 characters, with capitals,
\* blanks, a hyphen and an exclamation mark
C18_Witness ==
    /\ pc = "listed"
    /\ attacks[1].name = SubSeq(Attack2.name, 1, 31)
    /\ \E dir \in dirs : Len(dir) = 34 /\ dir[21] = "!" /\ dir[22] = "_" /\ dir[23] = "l"

\* Phase E has been called
PhaseECalled == pc \in {"E_wait", "E_verify", "done"}

\* the artifact paths of the attacks processed in this run
ProcessedPaths ==
    {ExpectedPath(attacks[k], ph) : k \in 1..Len(attacks), ph \in {"A", "B", "D"}}

\* C19 as stated: Phase E's context holds exactly the per-attack
\* artifacts of the attacks processed in this run (those of them that
\* exist), also under --attack and with directories of earlier runs.
C19_OnlyProcessedAttacks ==
    PhaseECalled => context = {p \in ProcessedPaths : Exists(p)}

\* C19 as amended: Phase E loads the whole ATTACKS.json, and its context
\* holds every EVIDENCE_ANALYSIS.json, counter_requirements.json and
\* analysis.md that exists under attacks/*/ when Phase E starts, and
\* nothing else: the artifacts this run's attacks have on disk, and also
\* those left by earlier runs in the directories of attacks that this
\* run did not process.
C19_EveryArtifactOnDisk ==
    PhaseECalled =>
       /\ \E k \in Events("load", "E") : log[k].path = AttacksPath
       /\ context = (DOMAIN disk) \ {SettingsPath, AttacksPath, GapPath}
       /\ \A p \in context : p.name \in ArtifactNames
       /\ \A p \in ProcessedPaths : Exists(p) => p \in context
       /\ \A n \in ArtifactNames :
             Exists(ArtifactPath(OldDir, n)) => ArtifactPath(OldDir, n) \in context

\* Phase E, in a run restricted by --attack to the second of two attacks,
\* has in its context the artifacts an earlier run left for the first
C19_Witness ==
    /\ pc = "E_wait"
    /\ args.attack = Id002
    /\ ListOnDisk = <<Attack1, Attack2>>
    /\ attacks = <<Attack2>>
    /\ ArtifactPath(OldDir, EVIDENCE) \in context
    /\ ExpectedPath(Attack2, "D") \in context

\* a step in which a phase reports success: the invocation just made
\* wrote the output file
ReportedOnlyIfWritten ==
    (/\ pc \in VerifyPcs
     /\ Len(log') = Len(log) + 1
     /\ log'[Len(log) + 1].ev = "created") => wrote

\* C20: a phase is reported as successful (Phase 0 returns a path, Phase
\* A, B, D or E logs its artifact as created) only if the agent
\* invocation of this run wrote the output file, also when a file of the
\* same name from an earlier run was on disk before the call.
C20_ReportedOnlyIfWritten == [][ReportedOnlyIfWritten]_vars

====
